---- MODULE Spec2Model ----
(***************************************************************************)
(* A model of sacred/observers/HPCFS.py: the HPCFSObserver run recorder    *)
(* (its lifecycle handlers, its in-memory record, the run directories and  *)
(* the content stores it writes) for several recorders that share one base *)
(* directory.                                                              *)
(* create_tinyDB, which sweeps the run directories into one index file, is *)
(* modelled step by step beside them.                                      *)
(*                                                                         *)
(* A handler that only touches the recorder's own memory and run directory *)
(* is one action.  started_event and resource_event go through             *)
(* find_or_save, which reads and writes the content stores shared by all   *)
(* runs: they are split at every file-system call on shared state, so that *)
(* the calls of different recorders interleave.                            *)
(***************************************************************************)
EXTENDS Integers, Sequences, FiniteSets, TLC

(* ------------------------------ bounds -------------------------------- *)
\* Caller-supplied timestamps (stop_time, beat_time, ...) are 1..MaxTime.
MaxTime == 2
\* copyfile writes a file in NumChunks buffer-sized pieces.
NumChunks == 2
\* Handler calls made in one behaviour, over all recorders.
MaxCalls == 4
\* create_tinyDB calls made in one behaviour.
MaxSweeps == 2

Recorders == {1, 2}
Times == 1..MaxTime
Chunks == 1..NumChunks
Keys == {"acc", "loss"}
RunIds == {"42"}
TmpNames == {"run_a", "run_b"}
NoId == "None"
NoDir == "None"
DirNames == RunIds \cup TmpNames
StoreDirs == {"_resources", "_sources"}
ArtNames == {"model.bin"}
Labels == {"INTERRUPTED", "TIMEOUT"}
Traces == {"trace"}
Terminal == {"COMPLETED", "FAILED"} \cup Labels

(* --------------------------- Python values ---------------------------- *)
\* A value is None, a number (a progress fraction, in percent) or a dict
\* over Keys with its keys in insertion order; NoKey stands for a key that
\* is missing from the record.  d[k] is "absent", "live" (an inline value)
\* or the name of a payload file.
NoKeys == [k \in Keys |-> "absent"]
NoKey == [t |-> "nokey", n |-> 0, ks |-> <<>>, d |-> NoKeys]
PyNone == [t |-> "none", n |-> 0, ks |-> <<>>, d |-> NoKeys]
PyNum(n) == [t |-> "num", n |-> n, ks |-> <<>>, d |-> NoKeys]
InSeq(x, s) == \E i \in 1..Len(s) : s[i] = x
PyDict(ks) == [t |-> "dict", n |-> 0, ks |-> ks,
               d |-> [k \in Keys |-> IF InSeq(k, ks) THEN "live" ELSE "absent"]]
\* v[k] = x on a dict
SetItem(v, k, x) == [v EXCEPT !.ks = IF v.d[k] = "absent" THEN Append(@, k) ELSE @,
                              !.d[k] = x]
IsDict(v) == v.t = "dict"

HeartbeatResults == {PyNone, PyNum(0), PyNum(50), PyNum(200), PyDict(<<"loss">>)}
CompleteResults == {PyNum(50), PyDict(<<>>), PyDict(<<"loss", "acc">>)}
Infos == {"empty", "data"}
Couts == {"out"}

(* ---------------------------- source files ---------------------------- *)
\* A path is its directory, and its base name split as os.path.splitext
\* splits it.  d1/a.txt, d1/b.txt and d2/a.txt hold the same bytes.
FileA == [dir |-> "d1", stem |-> "a", ext |-> ".txt"]
SrcFiles == {FileA,
             [dir |-> "d1", stem |-> "b", ext |-> ".txt"],
             [dir |-> "d2", stem |-> "a", ext |-> ".txt"]}
FileContent(f) == "X"
get_digest(f) == "md5" \o FileContent(f)
StoreName(f) == f.stem \o "_" \o get_digest(f) \o f.ext
StoreNames == {StoreName(f) : f \in SrcFiles}
\* ex_info['sources']
SourceLists == {<<>>, <<FileA>>}

(* ------------------------------- state -------------------------------- *)
VARIABLES
  dir,        \* self.dir of each recorder
  run_entry,  \* self.run_entry
  info,       \* self.info
  cout,       \* self.cout
  dirs,       \* the run directories under basedir and their files
  store,      \* the content stores (source_dir, resource_dir) and their files
  copies,     \* how many times copyfile has opened each store path
  pc,         \* where each recorder is in started_event / resource_event
  frame,      \* the locals of the handler a recorder is in
  last,       \* the latest handler call: who, what, its outcome
  hist,       \* the shape of each recorder's call sequence so far
  index,      \* create_tinyDB: the files at destination and destination+'.tmp'
  sw          \* create_tinyDB: where the sweep is, its arguments and its outcome

vars == <<dir, run_entry, info, cout, dirs, store, copies, pc, frame, last, hist,
          index, sw>>

\* self.run_entry = None
NoEntry == [some |-> FALSE, status |-> "", stop_time |-> 0, heartbeat |-> 0,
            result |-> NoKey, ETA |-> [k |-> "nokey", v |-> 0], fail_trace |-> "",
            resources |-> <<>>, artifacts |-> <<>>, sources |-> <<>>]
NoFile == [exists |-> FALSE, bytes |-> [i \in Chunks |-> ""]]
\* made counts the mkdir calls that created the directory, by is the recorder
\* whose started_event created it.
NoRunDir == [exists |-> FALSE, made |-> 0, by |-> 0, run_json |-> NoEntry, cout |-> "absent",
             info |-> "absent", payloads |-> {}, artifacts |-> {}]
IdleFrame == [op |-> "", id |-> NoId, file |-> FileA, store |-> "",
              off |-> 0, todo |-> <<>>, done |-> <<>>]
\* last after a handler is entered (the n-th call so far), and after a handler
\* that was entered earlier has gone on or ended
Call(r, op, id, arg, err, val) ==
  [rec |-> r, op |-> op, id |-> id, file |-> FileA, arg |-> arg, err |-> err, val |-> val,
   n |-> last.n + 1]
Ended(r, op, id, arg, err, val) ==
  [rec |-> r, op |-> op, id |-> id, file |-> frame[r].file, arg |-> arg, err |-> err,
   val |-> val, n |-> last.n]
\* An index file (a TinyDB JSON file) and its documents, in insertion order.
NoIndex == [exists |-> FALSE, docs |-> <<>>]
\* No create_tinyDB call is under way; n counts the calls made so far.  quiet
\* and calls record whether a handler was running and how many handler calls
\* had been made when the latest call listed the tree.
NoSweep == [pc |-> "idle", todo |-> {}, overwrite |-> FALSE, skip |-> TRUE,
            logger |-> "None", err |-> "none", n |-> 0, quiet |-> TRUE, calls |-> 0]
\* A handler may be entered while fewer than MaxCalls calls have been made.
CanCall(r) == pc[r] = "idle" /\ last.n < MaxCalls

Init ==
  /\ dir = [r \in Recorders |-> NoDir]
  /\ run_entry = [r \in Recorders |-> NoEntry]
  /\ info = [r \in Recorders |-> "none"]
  /\ cout = [r \in Recorders |-> ""]
  /\ dirs = [d \in DirNames |-> NoRunDir]
  /\ store = [s \in StoreDirs |-> [exists |-> FALSE, files |-> [n \in StoreNames |-> NoFile]]]
  /\ copies = [s \in StoreDirs |-> [n \in StoreNames |-> 0]]
  /\ pc = [r \in Recorders |-> "idle"]
  /\ frame = [r \in Recorders |-> IdleFrame]
  /\ last = [rec |-> 0, op |-> "none", id |-> NoId, file |-> FileA, arg |-> PyNone, err |-> "ok", val |-> "", n |-> 0]
  /\ hist = [r \in Recorders |-> "unstarted"]
  /\ index = [dest |-> NoIndex, tmp |-> NoIndex]
  /\ sw = NoSweep

(* ------------------------- started_event ------------------------------ *)
\* tempfile.mkdtemp(prefix='run_', dir=basedir): a name not yet in basedir
\* (the first unused one: the names are interchangeable).
FreeTmp == {d \in TmpNames : ~dirs[d].exists}
mkdtemp == CHOOSE d \in FreeTmp : \A e \in FreeTmp : d = e \/ ~dirs[d].exists
\* A faulty variant: a mkdir that accepts an existing directory, as
\* os.makedirs(path, exist_ok=True) does.
MkdirAcceptsExisting(d) == FALSE
\* os.mkdir(path) raises FileExistsError exactly when path exists.
MkdirRaises(d) == dirs[d].exists
\* json.dump(flatten(obj), f, sort_keys=True, indent=2): dict keys come out sorted.
SortKeys(ks) == IF InSeq("acc", ks) /\ InSeq("loss", ks) THEN <<"acc", "loss">> ELSE ks
JsonDump(e) == [e EXCEPT !.result.ks = SortKeys(@)]
\* save_json(self.run_entry, 'run.json') of recorder r with record e
save_json(fs, d, e) == [fs EXCEPT ![d].run_json = JsonDump(e)]
\* save_cout
save_cout(fs, d, c) == [fs EXCEPT ![d].cout = c]

\* lines 64-70: choose the run directory and create it
started_event(r, id, srcs) ==
  /\ CanCall(r)
  /\ id = NoId => FreeTmp # {}
  /\ LET d == IF id = NoId THEN mkdtemp ELSE id IN
     /\ dir' = [dir EXCEPT ![r] = d]
     /\ IF id # NoId /\ MkdirRaises(d)
        THEN /\ last' = Call(r, "start", id, PyNone, "FileExistsError", "")
             /\ hist' = [hist EXCEPT ![r] = "invalid"]
             /\ UNCHANGED <<dirs, pc, frame>>
        ELSE /\ dirs' = [dirs EXCEPT ![d].exists = TRUE, ![d].made = @ + 1, ![d].by = r]
             /\ pc' = [pc EXCEPT ![r] = "save_sources"]
             /\ frame' = [frame EXCEPT ![r] = [IdleFrame EXCEPT !.op = "start", !.id = id, !.todo = srcs]]
             /\ last' = Call(r, "start", id, PyNone, "running", "")
             /\ hist' = [hist EXCEPT ![r] = IF @ = "unstarted" THEN "starting" ELSE "invalid"]
  /\ UNCHANGED <<index, sw, run_entry, info, cout, store, copies>>

\* lines 57-59: the next source goes to find_or_save(abspath, self.source_dir)
save_sources(r) ==
  /\ pc[r] = "save_sources"
  /\ frame[r].todo # <<>>
  /\ frame' = [frame EXCEPT ![r].file = Head(frame[r].todo), ![r].store = "_sources"]
  /\ pc' = [pc EXCEPT ![r] = "fos_check_dir"]
  /\ UNCHANGED <<index, sw, dir, run_entry, info, cout, dirs, store, copies, last, hist>>

\* lines 72-94: the record is initialised and written, with an empty cout.txt
started_finish(r) ==
  /\ pc[r] = "save_sources"
  /\ frame[r].todo = <<>>
  /\ LET e == [some |-> TRUE, status |-> "RUNNING", stop_time |-> 0, heartbeat |-> 0,
               result |-> NoKey, ETA |-> [k |-> "none", v |-> 0], fail_trace |-> "",
               resources |-> <<>>, artifacts |-> <<>>, sources |-> frame[r].done]
     IN /\ run_entry' = [run_entry EXCEPT ![r] = e]
        /\ info' = [info EXCEPT ![r] = "empty"]
        /\ cout' = [cout EXCEPT ![r] = ""]
        /\ dirs' = save_cout(save_json(dirs, dir[r], e), dir[r], "")
  /\ last' = Ended(r, "start", frame[r].id, PyNone, "ok", dir[r])
  /\ hist' = [hist EXCEPT ![r] = IF @ = "starting" THEN "running" ELSE "invalid"]
  /\ pc' = [pc EXCEPT ![r] = "idle"]
  /\ frame' = [frame EXCEPT ![r] = IdleFrame]
  /\ UNCHANGED <<index, sw, dir, store, copies>>

(* --------------------------- find_or_save ----------------------------- *)
StorePath(s, n) == [dir |-> s, name |-> n]

\* What the caller does with (store_path, md5sum).  save_sources (line 61)
\* appends the pair and goes on; resource_event (lines 172-173) appends to
\* the record and writes it.
fos_return(r, path) ==
  IF frame[r].op = "start"
  THEN /\ frame' = [frame EXCEPT ![r].todo = Tail(@),
                                 ![r].done = Append(@, [file |-> frame[r].file, path |-> path])]
       /\ pc' = [pc EXCEPT ![r] = "save_sources"]
       /\ UNCHANGED <<run_entry, dirs, last, hist>>
  ELSE /\ pc' = [pc EXCEPT ![r] = "idle"]
       /\ frame' = [frame EXCEPT ![r] = IdleFrame]
       /\ hist' = [hist EXCEPT ![r] = "invalid"]
       /\ IF ~run_entry[r].some
          THEN /\ last' = Ended(r, "resource", NoId, PyNone, "TypeError", "")
               /\ UNCHANGED <<run_entry, dirs>>
          ELSE LET e == [run_entry[r] EXCEPT
                           !.resources = Append(@, [file |-> frame[r].file, path |-> path])]
               IN /\ run_entry' = [run_entry EXCEPT ![r] = e]
                  /\ dirs' = save_json(dirs, dir[r], e)
                  /\ last' = Ended(r, "resource", NoId, PyNone, "ok", "")

\* An exception leaves find_or_save and the handler that called it.
fos_raise(r, err) ==
  /\ pc' = [pc EXCEPT ![r] = "idle"]
  /\ frame' = [frame EXCEPT ![r] = IdleFrame]
  /\ last' = Ended(r, frame[r].op, frame[r].id, PyNone, err, "")
  /\ hist' = [hist EXCEPT ![r] = "invalid"]

\* line 97: if not os.path.exists(store_dir)
fos_check_dir(r) ==
  /\ pc[r] = "fos_check_dir"
  /\ pc' = [pc EXCEPT ![r] = IF store[frame[r].store].exists
                             THEN "fos_check_path" ELSE "fos_makedirs"]
  /\ UNCHANGED <<index, sw, dir, run_entry, info, cout, dirs, store, copies, frame, last, hist>>

\* line 98: os.makedirs(store_dir), which raises if the directory exists by now
fos_makedirs(r) ==
  /\ pc[r] = "fos_makedirs"
  /\ IF store[frame[r].store].exists
     THEN /\ fos_raise(r, "FileExistsError")
          /\ UNCHANGED store
     ELSE /\ store' = [store EXCEPT ![frame[r].store].exists = TRUE]
          /\ pc' = [pc EXCEPT ![r] = "fos_check_path"]
          /\ UNCHANGED <<frame, last, hist>>
  /\ UNCHANGED <<index, sw, dir, run_entry, info, cout, dirs, copies>>

\* A faulty variant: the copy is made whether or not the store path exists.
fos_always_copy(r) ==
  /\ pc[r] = "fos_check_path"
  /\ pc' = [pc EXCEPT ![r] = "copy_open"]
  /\ UNCHANGED <<index, sw, dir, run_entry, info, cout, dirs, store, copies, frame, last, hist>>

\* lines 99-103: the store path, and whether it exists
fos_check_path(r) ==
  /\ pc[r] = "fos_check_path"
  /\ LET s == frame[r].store
         n == StoreName(frame[r].file)
     IN IF store[s].files[n].exists
        THEN fos_return(r, StorePath(s, n))
        ELSE /\ pc' = [pc EXCEPT ![r] = "copy_open"]
             /\ UNCHANGED <<run_entry, dirs, frame, last, hist>>
  /\ UNCHANGED <<index, sw, dir, info, cout, store, copies>>

\* line 104, copyfile: open(dst, 'wb') creates or truncates the store file
copy_open(r) ==
  /\ pc[r] = "copy_open"
  /\ LET s == frame[r].store
         n == StoreName(frame[r].file)
     IN /\ store' = [store EXCEPT ![s].files[n] = [exists |-> TRUE, bytes |-> [i \in Chunks |-> ""]]]
        /\ copies' = [copies EXCEPT ![s][n] = @ + 1]
  /\ frame' = [frame EXCEPT ![r].off = 0]
  /\ pc' = [pc EXCEPT ![r] = "copy_write"]
  /\ UNCHANGED <<index, sw, dir, run_entry, info, cout, dirs, last, hist>>

\* line 104, copyfile: the next piece is written at the writer's own offset;
\* after the last piece the file is closed and find_or_save returns
copy_write(r) ==
  /\ pc[r] = "copy_write"
  /\ LET s == frame[r].store
         n == StoreName(frame[r].file)
         i == frame[r].off + 1
     IN /\ store' = [store EXCEPT ![s].files[n].bytes[i] = FileContent(frame[r].file)]
        /\ IF i = NumChunks
           THEN fos_return(r, StorePath(s, n))
           ELSE /\ frame' = [frame EXCEPT ![r].off = i]
                /\ UNCHANGED <<run_entry, dirs, pc, last, hist>>
  /\ UNCHANGED <<index, sw, dir, info, cout, copies>>

(* --------------------------- resource_event --------------------------- *)
\* line 171: find_or_save(filename, self.resource_dir)
resource_event(r, f) ==
  /\ CanCall(r)
  /\ frame' = [frame EXCEPT ![r] = [IdleFrame EXCEPT !.op = "resource", !.file = f,
                                                     !.store = "_resources"]]
  /\ pc' = [pc EXCEPT ![r] = "fos_check_dir"]
  /\ last' = [Call(r, "resource", NoId, PyNone, "running", "") EXCEPT !.file = f]
  /\ hist' = [hist EXCEPT ![r] = "invalid"]
  /\ UNCHANGED <<index, sw, dir, run_entry, info, cout, dirs, store, copies>>

\* The process of recorder r is killed inside a handler.
Crash(r) ==
  /\ pc[r] \notin {"idle", "crashed"}
  /\ pc' = [pc EXCEPT ![r] = "crashed"]
  /\ UNCHANGED <<index, sw, dir, run_entry, info, cout, dirs, store, copies, frame, last, hist>>

(* --------------------------- heartbeat_event -------------------------- *)
\* datetime.utcnow() - self.start_time, in seconds
Elapsed == 10
\* lines 129-137: (1./result - 1.) * diff.total_seconds() for a number other
\* than 0; on any exception (a zero, None, a dict) ETA is left as it was
heartbeat_eta(old, res) ==
  IF res.t = "num" /\ res.n # 0
  THEN [k |-> "num", v |-> ((100 - res.n) * Elapsed) \div res.n]
  ELSE old
\* lines 142-143: if self.info: self.save_json(self.info, 'info.json')
save_info(fs, d, inf) == IF inf = "data" THEN [fs EXCEPT ![d].info = inf] ELSE fs

heartbeat_event(r, inf, out, t, res) ==
  /\ CanCall(r)
  /\ info' = [info EXCEPT ![r] = inf]
  /\ IF ~run_entry[r].some
     THEN /\ last' = Call(r, "heartbeat", NoId, res, "TypeError", "")
          /\ UNCHANGED <<run_entry, cout, dirs>>
     ELSE LET e == [run_entry[r] EXCEPT !.heartbeat = t, !.result = res,
                                        !.ETA = heartbeat_eta(@, res)]
          IN /\ run_entry' = [run_entry EXCEPT ![r] = e]
             /\ cout' = [cout EXCEPT ![r] = out]
             /\ dirs' = save_info(save_json(save_cout(dirs, dir[r], out), dir[r], e),
                                  dir[r], inf)
             /\ last' = Call(r, "heartbeat", NoId, res, "ok", "")
  /\ hist' = [hist EXCEPT ![r] = IF @ = "running" THEN "running" ELSE "invalid"]
  /\ UNCHANGED <<index, sw, dir, store, copies, pc, frame>>

(* --------------------------- completed_event -------------------------- *)
\* line 151: fn = str(k)+'.gzp'
GzpName(k) == k \o ".gzp"
\* lines 150-153 for all keys: self.run_entry['result'][k] = fn
RECURSIVE StoreRefs(_, _)
StoreRefs(v, ks) ==
  IF ks = <<>> THEN v ELSE StoreRefs(SetItem(v, Head(ks), GzpName(Head(ks))), Tail(ks))
SeqRange(s) == {s[i] : i \in 1..Len(s)}
\* A faulty variant: no payload file is written.
save_no_payloads(fs, d, ks) == fs
\* save_compressed_pickle(v, fn) for each key of ks
save_payloads(fs, d, ks) == [fs EXCEPT ![d].payloads = @ \cup {GzpName(k) : k \in SeqRange(ks)}]

\* A faulty variant: the status is set before the result is asserted to be a
\* dict.
completed_status_first(e, t, res) ==
  LET e1 == [e EXCEPT !.stop_time = t, !.status = "COMPLETED"]
      e2 == [e1 EXCEPT !.ETA = [k |-> "nokey", v |-> 0]]
  IN IF e.ETA.k = "nokey"
       THEN [err |-> "KeyError", entry |-> e1, written |-> <<>>, saved |-> FALSE]
     ELSE IF ~IsDict(res)
       THEN [err |-> "AssertionError", entry |-> e2, written |-> <<>>, saved |-> FALSE]
     ELSE [err |-> "ok", entry |-> e2, written |-> res.ks, saved |-> TRUE]

\* What lines 146-157 do to a record e, and how they end.  stop_time is set
\* and ETA popped before the assert; the first payload file is written before
\* the first assignment into run_entry['result'].
completed_outcome(e, t, res) ==
  LET e1 == [e EXCEPT !.stop_time = t]
      e2 == [e1 EXCEPT !.ETA = [k |-> "nokey", v |-> 0]]
  IN IF e.ETA.k = "nokey"
       THEN [err |-> "KeyError", entry |-> e1, written |-> <<>>, saved |-> FALSE]
     ELSE IF ~IsDict(res)
       THEN [err |-> "AssertionError", entry |-> e2, written |-> <<>>, saved |-> FALSE]
     ELSE IF res.ks # <<>> /\ e.result.t = "nokey"
       THEN [err |-> "KeyError", entry |-> e2, written |-> <<Head(res.ks)>>, saved |-> FALSE]
     ELSE IF res.ks # <<>> /\ ~IsDict(e.result)
       THEN [err |-> "TypeError", entry |-> e2, written |-> <<Head(res.ks)>>, saved |-> FALSE]
     ELSE [err |-> "ok",
           entry |-> [e2 EXCEPT !.result = IF res.ks = <<>> THEN @ ELSE StoreRefs(@, res.ks),
                                !.status = "COMPLETED"],
           written |-> res.ks, saved |-> TRUE]

completed_event(r, t, res) ==
  /\ CanCall(r)
  /\ IF ~run_entry[r].some
     THEN /\ last' = Call(r, "complete", NoId, res, "TypeError", "")
          /\ UNCHANGED <<run_entry, dirs>>
     ELSE LET o == completed_outcome(run_entry[r], t, res)
              fs == save_payloads(dirs, dir[r], o.written)
          IN /\ run_entry' = [run_entry EXCEPT ![r] = o.entry]
             /\ dirs' = IF o.saved THEN save_json(fs, dir[r], o.entry) ELSE fs
             /\ last' = Call(r, "complete", NoId, res, o.err, "")
  /\ hist' = [hist EXCEPT ![r] = IF @ = "running" /\ IsDict(res) THEN "done" ELSE "invalid"]
  /\ UNCHANGED <<index, sw, dir, info, cout, store, copies, pc, frame>>

(* ------------------- interrupted_event, failed_event ------------------ *)
interrupted_event(r, t, status) ==
  /\ CanCall(r)
  /\ IF ~run_entry[r].some
     THEN /\ last' = Call(r, "interrupt", NoId, PyNone, "TypeError", "")
          /\ UNCHANGED <<run_entry, dirs>>
     ELSE LET e == [run_entry[r] EXCEPT !.stop_time = t, !.status = status]
          IN /\ run_entry' = [run_entry EXCEPT ![r] = e]
             /\ dirs' = save_json(dirs, dir[r], e)
             /\ last' = Call(r, "interrupt", NoId, PyNone, "ok", "")
  /\ hist' = [hist EXCEPT ![r] = IF @ = "running" THEN "done" ELSE "invalid"]
  /\ UNCHANGED <<index, sw, dir, info, cout, store, copies, pc, frame>>

failed_event(r, t, trace) ==
  /\ CanCall(r)
  /\ IF ~run_entry[r].some
     THEN /\ last' = Call(r, "fail", NoId, PyNone, "TypeError", "")
          /\ UNCHANGED <<run_entry, dirs>>
     ELSE LET e == [run_entry[r] EXCEPT !.stop_time = t, !.status = "FAILED",
                                        !.fail_trace = trace]
          IN /\ run_entry' = [run_entry EXCEPT ![r] = e]
             /\ dirs' = save_json(dirs, dir[r], e)
             /\ last' = Call(r, "fail", NoId, PyNone, "ok", "")
  /\ hist' = [hist EXCEPT ![r] = IF @ = "running" THEN "done" ELSE "invalid"]
  /\ UNCHANGED <<index, sw, dir, info, cout, store, copies, pc, frame>>

(* --------------------------- artifact_event --------------------------- *)
\* lines 115-117, 175-178: the file is copied to os.path.join(self.dir, name)
\* before the record is touched
artifact_event(r, name) ==
  /\ CanCall(r)
  /\ IF dir[r] = NoDir
     THEN /\ last' = Call(r, "artifact", NoId, PyNone, "TypeError", "")
          /\ UNCHANGED <<run_entry, dirs>>
     ELSE LET fs == [dirs EXCEPT ![dir[r]].artifacts = @ \cup {name}]
          IN IF ~run_entry[r].some
             THEN /\ last' = Call(r, "artifact", NoId, PyNone, "TypeError", "")
                  /\ dirs' = fs
                  /\ UNCHANGED run_entry
             ELSE LET e == [run_entry[r] EXCEPT !.artifacts = Append(@, name)]
                  IN /\ run_entry' = [run_entry EXCEPT ![r] = e]
                     /\ dirs' = save_json(fs, dir[r], e)
                     /\ last' = Call(r, "artifact", NoId, PyNone, "ok", "")
  /\ hist' = [hist EXCEPT ![r] = "invalid"]
  /\ UNCHANGED <<index, sw, dir, info, cout, store, copies, pc, frame>>

(* ---------------------------- create_tinyDB --------------------------- *)
\* logger=None, or a logging.Logger of the standard library
Loggers == {"None", "Logger"}
\* What the recorders own: create_tinyDB only reads it.
rvars == <<dir, run_entry, info, cout, dirs, store, copies, pc, frame, last, hist>>

\* A faulty variant: an existing destination never stops the sweep.
DestNeverBlocks(ow) == FALSE
\* line 207: os.path.isfile(destination) and not overwrite
DestBlocks(ow) == index.dest.exists /\ ~ow

\* lines 218-231 for the record j of one directory: "continue" without a
\* run.json, or for a status other than COMPLETED under skip_incomplete;
\* "raise" when datum['result'] is missing (KeyError), is not a dict
\* (AttributeError on .items()) or holds an inline number, for which
\* os.path.join(rel_path, v) raises TypeError; else "insert".
visit_outcome(j, skip) ==
  IF ~j.some THEN "continue"
  ELSE IF j.status # "COMPLETED" /\ skip THEN "continue"
  ELSE IF ~IsDict(j.result) THEN "raise"
  ELSE IF \E k \in Keys : j.result.d[k] = "live" THEN "raise"
  ELSE "insert"

\* A faulty variant: the documents are inserted into the destination itself.
db_insert_dest(ix, doc) ==
  [ix EXCEPT !.dest = [exists |-> TRUE, docs |-> Append(@.docs, doc)]]
\* line 231: db.insert(datum), on the TinyDB opened on destination+'.tmp'
db_insert(ix, doc) == [ix EXCEPT !.tmp.docs = Append(@, doc)]

\* lines 207-215: the destination check, TinyDB(tmp_filename), which creates
\* the file or opens it with the documents it holds, and the listing of
\* source_dir by os.walk
create_tinyDB(ow, skip, lg) ==
  /\ sw.pc = "idle" /\ sw.n < MaxSweeps
  /\ IF DestBlocks(ow)
     THEN /\ sw' = [sw EXCEPT !.overwrite = ow, !.skip = skip, !.logger = lg,
                              !.err = "FileExistsError", !.n = @ + 1]
          /\ UNCHANGED index
     ELSE /\ index' = [index EXCEPT !.tmp.exists = TRUE]
          /\ sw' = [pc |-> "walk", todo |-> {d \in DirNames : dirs[d].exists},
                    overwrite |-> ow, skip |-> skip, logger |-> lg, err |-> "running",
                    n |-> sw.n + 1,
                    quiet |-> \A r \in Recorders : pc[r] \in {"idle", "crashed"},
                    calls |-> last.n]
  /\ UNCHANGED rvars

\* create_tinyDB is left, normally or not.
sweep_ends(err) ==
  [sw EXCEPT !.pc = "idle", !.todo = {}, !.err = err, !.quiet = TRUE, !.calls = 0]

\* lines 215-240 for one directory of the walk; the except branch calls
\* logger.INFO, which a logging.Logger does not have (its method is info)
walk_dir(d) ==
  /\ sw.pc = "walk" /\ d \in sw.todo
  /\ LET o == visit_outcome(dirs[d].run_json, sw.skip) IN
     IF o = "raise" /\ sw.logger = "Logger"
     THEN /\ sw' = sweep_ends("AttributeError")
          /\ UNCHANGED index
     ELSE /\ sw' = [sw EXCEPT !.todo = @ \ {d}]
          /\ index' = IF o = "insert" THEN db_insert(index, [path |-> d, call |-> sw.n])
                      ELSE index
  /\ UNCHANGED rvars

\* line 243: os.rename(tmp_filename, destination), atomic, replacing an
\* existing destination
rename_tmp ==
  /\ sw.pc = "walk" /\ sw.todo = {}
  /\ index' = [dest |-> index.tmp, tmp |-> NoIndex]
  /\ sw' = sweep_ends("ok")
  /\ UNCHANGED rvars

\* The sweep is killed between two file-system calls.
sweep_killed ==
  /\ sw.pc = "walk"
  /\ sw' = sweep_ends("killed")
  /\ UNCHANGED <<index, rvars>>

\* The process of recorder r is killed inside completed_event, after n of its
\* payload files have been written and before run.json is (line 157).
completed_killed(r, t, res, n) ==
  /\ CanCall(r) /\ run_entry[r].some
  /\ LET o == completed_outcome(run_entry[r], t, res) IN
     /\ n <= Len(o.written)
     /\ dirs' = save_payloads(dirs, dir[r], SubSeq(o.written, 1, n))
  /\ pc' = [pc EXCEPT ![r] = "crashed"]
  /\ last' = Call(r, "complete", NoId, res, "killed", "")
  /\ hist' = [hist EXCEPT ![r] = "invalid"]
  /\ UNCHANGED <<index, sw, dir, run_entry, info, cout, store, copies, frame>>

Lifecycle(r) ==
  \/ \E inf \in Infos, out \in Couts, t \in Times, res \in HeartbeatResults :
       heartbeat_event(r, inf, out, t, res)
  \/ \E t \in Times, res \in CompleteResults : completed_event(r, t, res)
  \/ \E t \in Times, status \in Labels : interrupted_event(r, t, status)
  \/ \E t \in Times, trace \in Traces : failed_event(r, t, trace)
  \/ \E name \in ArtNames : artifact_event(r, name)

StartSteps(r) ==
  \/ \E id \in RunIds \cup {NoId}, srcs \in SourceLists : started_event(r, id, srcs)
  \/ save_sources(r)
  \/ started_finish(r)

StoreSteps(r) ==
  \/ fos_check_dir(r)
  \/ fos_makedirs(r)
  \/ fos_check_path(r)
  \/ copy_open(r)
  \/ copy_write(r)

\* Recorder 1 is driven through every handler.  The other run matters to it
\* through what it creates under basedir, so recorder 2 only starts.
Drivers == {1}

Next ==
  \/ \E r \in Recorders : StartSteps(r)
  \/ \E r \in Recorders : StoreSteps(r)
  \/ \E r \in Drivers : Lifecycle(r)
  \/ \E r \in Drivers, f \in SrcFiles : resource_event(r, f)

Spec == Init /\ [][Next]_vars

\* Every recorder starts and records resources, and may be killed inside a
\* handler.
NextRace ==
  \E r \in Recorders :
    \/ StartSteps(r)
    \/ \E f \in SrcFiles : resource_event(r, f)
    \/ StoreSteps(r)
    \/ Crash(r)

SpecRace == Init /\ [][NextRace]_vars

\* Runs are recorded, without source files, and the tree is swept into an
\* index; the sweep and a completing recorder may be killed.  The sweep reads
\* status and result only, so the events come with one time and one output,
\* and the heartbeats with one result that is a dict and one that is not.
SweepResults == {PyNum(50), PyDict(<<"loss">>)}

NextSweep ==
  \/ \E r \in Recorders, id \in RunIds \cup {NoId} : started_event(r, id, <<>>)
  \/ \E r \in Recorders : started_finish(r)
  \/ \E r \in Drivers, res \in SweepResults : heartbeat_event(r, "empty", "out", MaxTime, res)
  \/ \E r \in Drivers, res \in CompleteResults : completed_event(r, MaxTime, res)
  \/ \E r \in Drivers : failed_event(r, MaxTime, "trace")
  \/ \E r \in Drivers, res \in CompleteResults, n \in 0..Cardinality(Keys) :
       completed_killed(r, MaxTime, res, n)
  \/ \E ow \in BOOLEAN, skip \in BOOLEAN, lg \in Loggers : create_tinyDB(ow, skip, lg)
  \/ \E d \in DirNames : walk_dir(d)
  \/ rename_tmp
  \/ sweep_killed

SpecSweep == Init /\ [][NextSweep]_vars

(* ============================== claims ================================ *)
\* The step is the entry of handler op by recorder r (the call is made).
Enters(r, op) == last'.n = last.n + 1 /\ last'.rec = r /\ last'.op = op
\* What the recorder of the latest call holds.
LastEntry == run_entry[last.rec]
\* status, stop_time and result of a record
Fields(e) == <<e.status, e.stop_time, e.result>>

\* C1 (as claimed): in a call sequence start, heartbeat*, then one of
\* complete(mapping) / interrupt / fail, the status is RUNNING after the start
\* and after every heartbeat, and terminal after the final event.
C1_LifecycleStatus ==
  \A r \in Recorders :
    /\ hist[r] = "running" => run_entry[r].some /\ run_entry[r].status = "RUNNING"
    /\ hist[r] = "done" => run_entry[r].some /\ run_entry[r].status \in Terminal

\* C2 (as claimed): on a recorder whose status is terminal, or that was never
\* started, every heartbeat, complete, interrupt or fail call ends with an
\* error and leaves status, stop_time and result as they were, in memory and
\* in run.json.
C2_TerminalAbsorbing ==
  [][\A r \in Recorders :
       (/\ \E op \in {"heartbeat", "complete", "interrupt", "fail"} : Enters(r, op)
        /\ ~run_entry[r].some \/ run_entry[r].status \in Terminal)
       => /\ last'.err # "ok"
          /\ Fields(run_entry'[r]) = Fields(run_entry[r])
          /\ dir[r] # NoDir =>
               Fields(dirs'[dir[r]].run_json) = Fields(dirs[dir[r]].run_json)]_vars

\* C3 (as claimed): complete with a mapping, after a start and any number of
\* heartbeats, succeeds: one payload file <key>.gzp per key, each key's result
\* entry replaced by that file name, no ETA, stop_time set, status COMPLETED.
C3_CompleteSucceeds ==
  (last.op = "complete" /\ IsDict(last.arg) /\ hist[last.rec] = "done")
  => /\ last.err = "ok"
     /\ LastEntry.status = "COMPLETED"
     /\ LastEntry.stop_time \in Times
     /\ LastEntry.ETA.k = "nokey"
     /\ \A k \in SeqRange(last.arg.ks) :
          /\ LastEntry.result.t = "dict"
          /\ LastEntry.result.d[k] = GzpName(k)
          /\ GzpName(k) \in dirs[dir[last.rec]].payloads

\* C4: complete with a result that is not a mapping, on a recorder whose
\* status is RUNNING, ends with an error; the status in memory is still
\* RUNNING and run.json is not rewritten.
C4_NonMappingRejected ==
  [][\A r \in Recorders :
       (/\ Enters(r, "complete")
        /\ ~IsDict(last'.arg)
        /\ run_entry[r].some /\ run_entry[r].status = "RUNNING")
       => /\ last'.err \notin {"ok", "running"}
          /\ run_entry'[r].status = "RUNNING"
          /\ dirs'[dir[r]].run_json = dirs[dir[r]].run_json]_vars

\* C4 witness: a complete with a number has just failed its assert on a
\* RUNNING recorder.
C4_Witness ==
  /\ last.op = "complete" /\ ~IsDict(last.arg) /\ last.err = "AssertionError"
  /\ LastEntry.status = "RUNNING"
  /\ dirs[dir[last.rec]].run_json.status = "RUNNING"

\* The step is the normal return of recorder r's started_event.
StartReturns(r) ==
  pc[r] = "save_sources" /\ pc'[r] = "idle" /\ last'.rec = r /\ last'.err = "ok"

\* C5 (as claimed): start on a recorder that already holds a record does not
\* return normally, does not replace the record and does not point self.dir
\* at another run directory.
C5_RestartRejected ==
  [][\A r \in Recorders :
       run_entry[r].some
       => /\ ~StartReturns(r)
          /\ Enters(r, "start") => dir'[r] = dir[r]
          /\ run_entry'[r].some /\ run_entry'[r].sources = run_entry[r].sources]_vars

(* ----------------------- claims on SpecRace --------------------------- *)
\* All pieces of a store file are written.
Complete(fl) == fl.exists /\ \A i \in Chunks : fl.bytes[i] # ""
Resources(r) == SeqRange(run_entry[r].resources)
HasResource(r, f) == \E e \in Resources(r) : e.file = f
SameBase(f, g) == f.stem = g.stem /\ f.ext = g.ext

\* After the only two calls made, both starts with run id "42", have ended.
TwoStartsRaced ==
  last.n = 2 /\ \A r \in Recorders : dir[r] = "42" /\ pc[r] = "idle"

\* C6: a start with a run id uses basedir/<id> and returns that name; when
\* basedir/<id> exists it raises FileExistsError and no file or directory
\* under basedir (run directories, content stores) is created or changed; a
\* run directory is created by one mkdir only, and of two starts that race
\* for one run id exactly one ends with a record, in that directory.
C6_StartWithRunId ==
  [][/\ \A r \in Recorders :
          /\ (Enters(r, "start") /\ last'.id # NoId /\ dirs[last'.id].exists)
             => /\ last'.err = "FileExistsError"
                /\ dirs' = dirs /\ store' = store /\ copies' = copies
          /\ (Enters(r, "start") /\ last'.id # NoId /\ ~dirs[last'.id].exists)
             => /\ last'.err = "running"
                /\ dir'[r] = last'.id /\ dirs'[last'.id].exists
          /\ (StartReturns(r) /\ frame[r].id # NoId)
             => /\ last'.val = frame[r].id /\ dir'[r] = frame[r].id
                /\ dirs'[frame[r].id].run_json.status = "RUNNING"
     /\ \A d \in DirNames : dirs'[d].made <= 1
     /\ TwoStartsRaced'
        => /\ Cardinality({r \in Recorders : run_entry'[r].some}) = 1
           /\ last'.op = "start"
           /\ \E r \in Recorders : ~run_entry'[r].some /\ hist'[r] = "invalid"]_vars

\* C6 witness: a start with run id "42" has just been refused while the start
\* of the other recorder, which created basedir/42, is still under way.
C6_Witness ==
  /\ last.op = "start" /\ last.id = "42" /\ last.err = "FileExistsError"
  /\ \E r \in Recorders \ {last.rec} :
       pc[r] \notin {"idle", "crashed"} /\ frame[r].op = "start" /\ frame[r].id = "42"

\* C7 (as claimed): two files with the same bytes and different names, stored
\* in one store directory, get the same stored path and digest, and the store
\* file is written once.
C7_SameContentDedup ==
  \A r \in Recorders : \A a, b \in Resources(r) :
    (a.file.stem # b.file.stem /\ FileContent(a.file) = FileContent(b.file))
    => /\ a.path = b.path
       /\ get_digest(a.file) = get_digest(b.file)
       /\ copies[a.path.dir][a.path.name] = 1

\* C7 (amended): of two files with the same bytes that one recorder stores in
\* one store directory, one call after the other, those with the same base
\* name get the same stored path, those with different base names get
\* different stored paths; the digests are equal and every stored path is
\* written once and completely.
C7_SameBasenameDedup ==
  \A r \in Recorders : \A a, b \in Resources(r) :
    FileContent(a.file) = FileContent(b.file)
    => /\ get_digest(a.file) = get_digest(b.file)
       /\ a.path.dir = "_resources" /\ a.path.name = StoreName(a.file)
       /\ SameBase(a.file, b.file) <=> a.path = b.path
       /\ copies[a.path.dir][a.path.name] = 1
       /\ Complete(store[a.path.dir].files[a.path.name])

\* C7 witness: d1/a.txt and d2/a.txt are both recorded, with one stored path.
C7_Witness ==
  \E r \in Recorders : \E a, b \in Resources(r) :
    a.file.dir # b.file.dir /\ SameBase(a.file, b.file) /\ a.path = b.path

\* C8 (as claimed): when two recorders record the same resource file, then
\* once both calls have ended both records reference the same stored path and
\* the resource store holds one entry for the file.
C8_ConcurrentResource ==
  \A r1, r2 \in Recorders :
    (/\ r1 # r2
     /\ last.op = "resource" /\ last.rec = r1 /\ last.err # "running"
     /\ run_entry[r1].some
     /\ HasResource(r2, last.file))
    => /\ last.err = "ok"
       /\ HasResource(r1, last.file)
       /\ \A a \in Resources(r1), b \in Resources(r2) :
            (a.file = last.file /\ b.file = last.file) => a.path = b.path
       /\ store["_resources"].files[StoreName(last.file)].exists

\* C9 (as claimed): a store file that has been written is never written to,
\* truncated or removed afterwards.
C9_StoreAppendOnly ==
  [][\A s \in StoreDirs, n \in StoreNames :
       Complete(store[s].files[n]) => store'[s].files[n] = store[s].files[n]]_vars

\* C10 (as claimed): when the existence check of find_or_save, called for a
\* started run, finds the store path present, so that the copy is skipped and
\* the path recorded, the file is complete.
C10_PresentIsComplete ==
  [][\A r \in Recorders :
       (/\ pc[r] = "fos_check_path" /\ pc'[r] \notin {"fos_check_path", "crashed"}
        /\ run_entry[r].some
        /\ store[frame[r].store].files[StoreName(frame[r].file)].exists)
       => Complete(store[frame[r].store].files[StoreName(frame[r].file)])]_vars

(* ------------------- claims on the record (Spec) ---------------------- *)
\* C11 (as claimed): whenever a recorder that holds a record is outside its
\* handlers, after a normal return or an error, run.json in its run directory
\* is the serialization of the record in memory.
C11_RunJsonIsSnapshot ==
  \A r \in Recorders :
    (pc[r] = "idle" /\ run_entry[r].some)
    => dirs[dir[r]].run_json = JsonDump(run_entry[r])

IsPrefix(s, t) == Len(s) <= Len(t) /\ \A i \in 1..Len(s) : s[i] = t[i]

\* C12 (as claimed): every step leaves the resources and the artifacts of a
\* record as prefixes of the new lists, and overwrites no field other than
\* status, stop_time, result, heartbeat and ETA (fail adds fail_trace).
C12_AppendMostly ==
  [][\A r \in Recorders :
       run_entry[r].some
       => /\ run_entry'[r].some
          /\ IsPrefix(run_entry[r].resources, run_entry'[r].resources)
          /\ IsPrefix(run_entry[r].artifacts, run_entry'[r].artifacts)
          /\ run_entry'[r].sources = run_entry[r].sources]_vars

\* A progress fraction in (0,1], in percent.
IsFraction(v) == v.t = "num" /\ 0 < v.n /\ v.n <= 100

\* C13 (as claimed): ETA is None when a start returns; a heartbeat on a
\* recorder that holds a record returns normally, stores the beat time, the
\* result and the captured output, writes run.json, and assigns ETA only when
\* its result is a number in (0,1].
C13_EtaOnlyForFraction ==
  [][\A r \in Recorders :
       /\ StartReturns(r) => run_entry'[r].ETA.k = "none"
       /\ (Enters(r, "heartbeat") /\ run_entry[r].some)
          => /\ last'.err = "ok"
             /\ run_entry'[r].heartbeat \in Times
             /\ run_entry'[r].result = last'.arg
             /\ cout'[r] \in Couts /\ dirs'[dir[r]].cout = cout'[r]
             /\ dirs'[dir[r]].run_json = JsonDump(run_entry'[r])
             /\ run_entry'[r].ETA # run_entry[r].ETA => IsFraction(last'.arg)]_vars

\* C18 (as claimed): a step of a handler other than started_event changes
\* files only in a run directory that the calling recorder's own start
\* created.
C18_WritesOwnDirOnly ==
  [][\A d \in DirNames :
       (dirs'[d] # dirs[d] /\ last'.op # "start") => dirs[d].by = last'.rec]_vars

(* -------------------- claims on the sweep (SpecSweep) ----------------- *)
\* The step is the rename that ends a create_tinyDB call.
Renames == sw.pc = "walk" /\ sw'.pc = "idle" /\ sw'.err = "ok"
\* No handler has run since the call under way listed the tree.
TreeAtRest ==
  sw.quiet /\ last.n = sw.calls /\ \A r \in Recorders : pc[r] \in {"idle", "crashed"}
CompletedRuns == {d \in DirNames : dirs[d].run_json.some /\ dirs[d].run_json.status = "COMPLETED"}
DocsOf(ix, d) == {i \in 1..Len(ix.docs) : ix.docs[i].path = d}

\* C14 (as claimed): a sweep with skip_incomplete=True over a tree that the
\* recorders have left at rest ends with an index of one document for each
\* run directory whose run.json has status COMPLETED, and no other document.
C14_OneDocPerCompleted ==
  [][(Renames /\ sw.skip /\ TreeAtRest)
     => /\ Len(index'.dest.docs) = Cardinality(CompletedRuns)
        /\ \A d \in CompletedRuns : Cardinality(DocsOf(index'.dest, d)) = 1]_vars

\* C15 (as claimed): no step of the walk ends the sweep with an exception,
\* with or without a logger, and the index of a sweep over a tree at rest
\* holds every COMPLETED run whose record can be read and none whose record
\* makes the loop body raise.
C15_BadDirSkipped ==
  [][/\ (sw.pc = "walk" /\ sw' # sw) => sw'.err \in {"running", "ok", "killed"}
     /\ (Renames /\ TreeAtRest)
        => \A d \in DirNames :
             /\ visit_outcome(dirs[d].run_json, sw.skip) = "insert"
                => DocsOf(index'.dest, d) # {}
             /\ visit_outcome(dirs[d].run_json, sw.skip) = "raise"
                => DocsOf(index'.dest, d) = {}]_vars

\* C16: the file at destination changes only in the rename that ends the
\* walk, after every listed directory has been visited, and becomes the whole
\* temporary index; a sweep that is killed or raises leaves it as it was.
C16_AtomicPublish ==
  [][index'.dest # index.dest
     => /\ Renames /\ sw.todo = {}
        /\ index'.dest = index.tmp /\ index'.dest.exists]_vars

\* C16 witness: the second sweep was killed after it had inserted a document,
\* and destination still holds the index of the first sweep.
C16_Witness ==
  /\ sw.n = 2 /\ sw.err = "killed"
  /\ index.tmp.docs # <<>>
  /\ index.dest.exists /\ index.dest.docs # <<>>
  /\ \A i \in 1..Len(index.dest.docs) : index.dest.docs[i].call = 1

\* C17: create_tinyDB with overwrite=False and an index file at destination
\* raises FileExistsError at once: destination and destination+'.tmp' are as
\* before and no directory is listed or read.
C17_NoOverwrite ==
  [][(sw'.n = sw.n + 1 /\ index.dest.exists /\ ~sw'.overwrite)
     => /\ sw'.err = "FileExistsError" /\ sw'.pc = "idle" /\ sw'.todo = {}
        /\ index' = index]_vars

\* C17 witness: a call has just been refused, and there is an index at
\* destination and no temporary file.
C17_Witness ==
  sw.err = "FileExistsError" /\ ~sw.overwrite /\ index.dest.exists /\ ~index.tmp.exists

\* The entries of a result that are names of payload files.
FileRefs(v) == {v.d[k] : k \in Keys} \cap {GzpName(k) : k \in Keys}

C20_OnlyThisSweep ==
  [][Renames => \A i \in 1..Len(index'.dest.docs) : index'.dest.docs[i].call = sw.n]_vars

====
